---- MODULE Spec2Model ----
(***************************************************************************)
(* Model of the slk581 crate (src/src/lib.rs): encode() turns a family     *)
(* name, a given name, a date of birth and a sex into the key              *)
(* XXXZZDDMMYYYYN or into an SLK581Error.                                  *)
(*                                                                         *)
(* A text (&str) is a sequence of characters; a character is a one-letter  *)
(* string, and a character outside ASCII is the string of its code point   *)
(* ("U+00DF").  An Option<&str> is <<>> (None) or <<text>> (Some(text)).   *)
(***************************************************************************)
EXTENDS Integers, Sequences, FiniteSets, TLC

\* ------------------------------------------------------------------------
\* Bounds of the model
\* ------------------------------------------------------------------------

\* Longest prefix of a sample name that is given to encode.
MaxNameLen == 6

\* ------------------------------------------------------------------------
\* Characters and the standard library's case conversions
\* ------------------------------------------------------------------------

None == <<>>

Some(x) == <<x>>

unwrap(o) == o[1]

is_none(o) == o = None

UpperLetters == <<"A", "B", "C", "D", "E", "F", "G", "H", "I", "J", "K", "L", "M",
                  "N", "O", "P", "Q", "R", "S", "T", "U", "V", "W", "X", "Y", "Z">>

LowerLetters == <<"a", "b", "c", "d", "e", "f", "g", "h", "i", "j", "k", "l", "m",
                  "n", "o", "p", "q", "r", "s", "t", "u", "v", "w", "x", "y", "z">>

\* Characters outside ASCII that the sample names use.
SHARP_S == "U+00DF"

E_ACUTE == "U+00E9"

CAPITAL_E_ACUTE == "U+00C9"

IndexOf(letters, c) == CHOOSE i \in 1..Len(letters) : letters[i] = c

IsUpperLetter(c) == \E i \in 1..Len(UpperLetters) : UpperLetters[i] = c

IsLowerLetter(c) == \E i \in 1..Len(LowerLetters) : LowerLetters[i] = c

\* char::to_uppercase: the upper-case form of one character is a sequence of
\* characters (the sharp s becomes "SS").
char_to_uppercase(c) ==
    IF IsLowerLetter(c) THEN <<UpperLetters[IndexOf(LowerLetters, c)]>>
    ELSE IF c = SHARP_S THEN <<"S", "S">>
    ELSE IF c = E_ACUTE THEN <<CAPITAL_E_ACUTE>>
    ELSE <<c>>

\* char::to_lowercase, on the characters the sample texts use.
char_to_lowercase(c) ==
    IF IsUpperLetter(c) THEN <<LowerLetters[IndexOf(UpperLetters, c)]>>
    ELSE IF c = CAPITAL_E_ACUTE THEN <<E_ACUTE>>
    ELSE <<c>>

RECURSIVE to_uppercase(_)
to_uppercase(s) ==
    IF s = <<>> THEN <<>>
    ELSE char_to_uppercase(Head(s)) \o to_uppercase(Tail(s))

RECURSIVE to_lowercase(_)
to_lowercase(s) ==
    IF s = <<>> THEN <<>>
    ELSE char_to_lowercase(Head(s)) \o to_lowercase(Tail(s))

\* ------------------------------------------------------------------------
\* Program constants
\* ------------------------------------------------------------------------

UNKNOWN_FAMILY_NAME == <<"9", "9", "9">>

UNKNOWN_GIVEN_NAME == <<"9", "9">>

UNKNOWN_CHARACTER_IN_NAME == "2"

MALE == <<"1">>

FEMALE == <<"2">>

TRANSGENDER == <<"3">>

UNKNOWN_SEX == <<"3">>

\* ------------------------------------------------------------------------
\* Names
\* ------------------------------------------------------------------------

\* Mutant: only white space is skipped.
RECURSIVE sanitize_name_keeping_punctuation(_)
sanitize_name_keeping_punctuation(name) ==
    IF name = <<>> THEN <<>>
    ELSE (IF Head(name) = " " THEN <<>> ELSE <<Head(name)>>)
             \o sanitize_name_keeping_punctuation(Tail(name))

\* sanitize_name: push every character in 'A' ... 'Z', skip the others.
RECURSIVE sanitize_name(_)
sanitize_name(name) ==
    IF name = <<>> THEN <<>>
    ELSE (IF IsUpperLetter(Head(name)) THEN <<Head(name)>> ELSE <<>>)
             \o sanitize_name(Tail(name))

\* chars().take(n): the first n characters.
take(s, n) == SubSeq(s, 1, IF Len(s) < n THEN Len(s) ELSE n)

\* Iterator::nth(position) on the one iterator chars_iter, of which `consumed`
\* characters have been consumed: it consumes position + 1 more characters and
\* yields the last of them, or consumes the rest and yields nothing.
nth_found(chars, consumed, position) == consumed + position + 1 <= Len(chars)

\* Mutant: every lookup starts again at the first character.
nth_consumed_from_start(chars, consumed, position) == 0

nth_consumed(chars, consumed, position) ==
    IF nth_found(chars, consumed, position)
    THEN consumed + position + 1
    ELSE Len(chars)

\* The map-and-fold of encode_name over vec_pos, with the iterator's state.
RECURSIVE map_positions(_, _, _)
map_positions(chars, consumed, vec_pos) ==
    IF vec_pos = <<>> THEN <<>>
    ELSE LET position == Head(vec_pos)
             c == IF nth_found(chars, consumed, position)
                  THEN chars[consumed + position + 1]
                  ELSE UNKNOWN_CHARACTER_IN_NAME
         IN  <<c>> \o map_positions(chars, nth_consumed(chars, consumed, position),
                                    Tail(vec_pos))

encode_name(name, n, vec_pos) ==
    LET clean_name == sanitize_name(to_uppercase(unwrap(name)))
    IN  map_positions(take(clean_name, n), 0, vec_pos)

\* Mutant: the lookups start at the first cleaned letter (letters 1, 2, 4).
encode_family_name_from_first(name) ==
    IF is_none(name) THEN UNKNOWN_FAMILY_NAME
    ELSE encode_name(name, 5, <<0, 0, 1>>)

encode_family_name(name) ==
    IF is_none(name) THEN UNKNOWN_FAMILY_NAME
    ELSE encode_name(name, 5, <<1, 0, 1>>)

\* Mutant: the given name is cut to its first 2 cleaned letters.
encode_given_name_take_two(name) ==
    IF is_none(name) THEN UNKNOWN_GIVEN_NAME
    ELSE encode_name(name, 2, <<1, 0>>)

encode_given_name(name) ==
    IF is_none(name) THEN UNKNOWN_GIVEN_NAME
    ELSE encode_name(name, 3, <<1, 0>>)

\* ------------------------------------------------------------------------
\* Results
\* ------------------------------------------------------------------------

Ok(v) == [kind |-> "Ok", val |-> v]

InvalidDateOfBirth == [kind |-> "InvalidDateOfBirth", val |-> <<>>]

UnknownDateOfBirth == [kind |-> "UnknownDateOfBirth", val |-> <<>>]

UnsupportedSex(s) == [kind |-> "UnsupportedSex", val |-> s]

is_err(r) == r.kind /= "Ok"

\* ------------------------------------------------------------------------
\* Date of birth: NaiveDate::parse_from_str(text, "%Y-%m-%d") and
\* NaiveDate::format("%d%m%Y")
\* ------------------------------------------------------------------------

Digits == <<"0", "1", "2", "3", "4", "5", "6", "7", "8", "9">>

IsDigit(c) == \E i \in 1..Len(Digits) : Digits[i] = c

DigitValue(c) == IndexOf(Digits, c) - 1

IsWhitespace(c) == c = " "

RECURSIVE trim_left(_)
trim_left(s) ==
    IF s /= <<>> /\ IsWhitespace(Head(s)) THEN trim_left(Tail(s)) ELSE s

\* The number of leading digits of s.
RECURSIVE leading_digits(_)
leading_digits(s) ==
    IF s /= <<>> /\ IsDigit(Head(s)) THEN 1 + leading_digits(Tail(s)) ELSE 0

\* The value of a text of digits.
RECURSIVE digits_value(_)
digits_value(s) ==
    IF s = <<>> THEN 0
    ELSE 10 * digits_value(SubSeq(s, 1, Len(s) - 1)) + DigitValue(s[Len(s)])

ParseError == [ok |-> FALSE, v |-> 0, rest |-> <<>>]

\* scan::number(s, min, max): between min and max leading digits of s.
scan_number(s, min, max) ==
    LET upto == leading_digits(take(s, max))
    IN  IF upto < min THEN ParseError
        ELSE [ok |-> TRUE, v |-> digits_value(SubSeq(s, 1, upto)),
              rest |-> SubSeq(s, upto + 1, Len(s))]

\* A numeric item (%Y, %m, %d): leading white space is skipped, then one to
\* `width` digits are read; a signed item (%Y) that starts with a sign reads
\* any number of digits after it.
parse_numeric(s, width, signed) ==
    LET t == trim_left(s)
    IN  IF signed /\ t /= <<>> /\ Head(t) = "-"
        THEN LET n == scan_number(Tail(t), 1, Len(t))
             IN  [n EXCEPT !.v = 0 - n.v]
        ELSE IF signed /\ t /= <<>> /\ Head(t) = "+"
        THEN scan_number(Tail(t), 1, Len(t))
        ELSE scan_number(t, 1, width)

\* A literal item: the text has to start with it.
parse_literal(s, c) ==
    IF s /= <<>> /\ Head(s) = c
    THEN [ok |-> TRUE, v |-> 0, rest |-> Tail(s)]
    ELSE ParseError

is_leap_year(year) ==
    year % 4 = 0 /\ (year % 100 /= 0 \/ year % 400 = 0)

days_in_month(year, month) ==
    IF month = 2 THEN (IF is_leap_year(year) THEN 29 ELSE 28)
    ELSE IF month \in {4, 6, 9, 11} THEN 30
    ELSE 31

\* NaiveDate::from_ymd_opt: a date of the proleptic Gregorian calendar, in
\* the years NaiveDate holds.
from_ymd_opt(year, month, day) ==
    /\ year >= -262144 /\ year <= 262143
    /\ month >= 1 /\ month <= 12
    /\ day >= 1 /\ day <= days_in_month(year, month)

NoDate == [ok |-> FALSE, year |-> 0, month |-> 0, day |-> 0]

\* parse_from_str(text, INPUT_DATE_FORMAT): the items %Y - %m - %d in turn,
\* nothing after them, and the three numbers a date.
parse_from_str(s) ==
    LET y  == parse_numeric(s, 4, TRUE)
        l1 == IF y.ok THEN parse_literal(y.rest, "-") ELSE ParseError
        m  == IF l1.ok THEN parse_numeric(l1.rest, 2, FALSE) ELSE ParseError
        l2 == IF m.ok THEN parse_literal(m.rest, "-") ELSE ParseError
        d  == IF l2.ok THEN parse_numeric(l2.rest, 2, FALSE) ELSE ParseError
    IN  IF d.ok /\ d.rest = <<>> /\ from_ymd_opt(y.v, m.v, d.v)
        THEN [ok |-> TRUE, year |-> y.v, month |-> m.v, day |-> d.v]
        ELSE NoDate

\* The decimal digits of n >= 0.
RECURSIVE decimal(_)
decimal(n) ==
    IF n < 10 THEN <<Digits[n + 1]>>
    ELSE decimal(n \div 10) \o <<Digits[(n % 10) + 1]>>

RECURSIVE zero_pad(_, _)
zero_pad(s, width) ==
    IF Len(s) >= width THEN s ELSE zero_pad(<<"0">> \o s, width)

\* %Y: four digits, and a sign before a year outside 0..9999.
format_year(year) ==
    IF year >= 0 /\ year < 10000 THEN zero_pad(decimal(year), 4)
    ELSE IF year < 0 THEN <<"-">> \o zero_pad(decimal(0 - year), 4)
    ELSE <<"+">> \o zero_pad(decimal(year), 4)

\* Mutant: the output format with the month before the day (%m%d%Y).
format_date_month_first(date) ==
    zero_pad(decimal(date.month), 2) \o zero_pad(decimal(date.day), 2)
        \o format_year(date.year)

\* format(OUTPUT_DATE_FORMAT): %d%m%Y.
format_date(date) ==
    zero_pad(decimal(date.day), 2) \o zero_pad(decimal(date.month), 2)
        \o format_year(date.year)

encode_date_of_birth(date_of_birth) ==
    IF is_none(date_of_birth) THEN UnknownDateOfBirth
    ELSE LET parsed == parse_from_str(unwrap(date_of_birth))
         IN  IF ~parsed.ok THEN InvalidDateOfBirth
             ELSE Ok(format_date(parsed))

\* ------------------------------------------------------------------------
\* Sex
\* ------------------------------------------------------------------------

\* Mutant: the error carries the lower-cased text.
encode_sex_lowercased(sex) ==
    IF is_none(sex) THEN Ok(UNKNOWN_SEX)
    ELSE LET lc_sex == to_lowercase(unwrap(sex))
         IN  IF lc_sex \in {<<"m">>, <<"m", "a", "l", "e">>} THEN Ok(MALE)
             ELSE IF lc_sex \in {<<"f">>, <<"f", "e", "m", "a", "l", "e">>}
                  THEN Ok(FEMALE)
             ELSE IF lc_sex \in {<<"t">>, <<"t", "r", "a", "n", "s">>}
                  THEN Ok(TRANSGENDER)
             ELSE UnsupportedSex(lc_sex)

encode_sex(sex) ==
    IF is_none(sex) THEN Ok(UNKNOWN_SEX)
    ELSE LET lc_sex == to_lowercase(unwrap(sex))
         IN  IF lc_sex \in {<<"m">>, <<"m", "a", "l", "e">>} THEN Ok(MALE)
             ELSE IF lc_sex \in {<<"f">>, <<"f", "e", "m", "a", "l", "e">>}
                  THEN Ok(FEMALE)
             ELSE IF lc_sex \in {<<"t">>, <<"t", "r", "a", "n", "s">>}
                  THEN Ok(TRANSGENDER)
             ELSE UnsupportedSex(unwrap(sex))

\* ------------------------------------------------------------------------
\* encode, as the function of its arguments
\* ------------------------------------------------------------------------

encode(f, g, d, s) ==
    LET date_code == encode_date_of_birth(d)
        sex_code == encode_sex(s)
    IN  IF is_err(date_code) THEN date_code
        ELSE IF is_err(sex_code) THEN sex_code
        ELSE Ok(encode_family_name(f) \o encode_given_name(g)
                    \o date_code.val \o sex_code.val)

\* ------------------------------------------------------------------------
\* The texts given to encode
\* ------------------------------------------------------------------------

Prefixes(s) ==
    {SubSeq(s, 1, n) : n \in 0..(IF Len(s) < MaxNameLen THEN Len(s) ELSE MaxNameLen)}

Options(texts) == {None} \cup {Some(t) : t \in texts}

\* Names given to encode prefix by prefix.
FamilyNamePrefixed ==
    {<<"S", "m", "i", "t", "h", "s", "o", "n">>,
     <<"S", "t", "r", "a", SHARP_S, "e">>}

\* Names given to encode as they are.
FamilyNameSamples ==
    {<<"O", "'", "B", "e", "r">>,
     <<"O", " ", "B", "a", "r", "e">>,
     <<"O", "-", "B">>,
     <<"O", " ", "B", "a", "l", "e">>,
     <<"D", "o", "e">>,
     <<"R", "o", "e">>,
     <<"Y", "o">>,
     <<"Y">>,
     <<E_ACUTE, "1">>}

GivenNamePrefixed ==
    {<<"J", "o", "h", "n">>}

GivenNameSamples ==
    {<<"O", "-", "B">>,
     <<SHARP_S>>,
     <<"Y", "o">>,
     <<"Y">>}

FamilyNames ==
    Options(FamilyNameSamples \cup UNION {Prefixes(s) : s \in FamilyNamePrefixed})

GivenNames ==
    Options(GivenNameSamples \cup UNION {Prefixes(s) : s \in GivenNamePrefixed})

YearTexts ==
    {<<"2", "0", "0", "0">>,
     <<"1", "9", "0", "0">>,
     <<"+", "1", "2", "3", "4", "5">>}

MonthDayTexts ==
    {<<<<"1", "2">>, <<"1", "9">>>>,
     <<<<"0", "2">>, <<"2", "9">>>>,
     <<<<"1">>, <<"9">>>>,
     <<<<"0", "4">>, <<"3", "1">>>>}

OtherDateTexts ==
    {<<"2", "0", "0", "0", "1", "2", "1", "9">>,
     <<"2", "0", "0", "0", "-", "1", "2", "-", "1", "9", " ">>,
     <<" ", "2", "0", "0", "0", "-", "1", "2", "-", "1", "9">>,
     <<"-", "0", "0", "0", "1", "-", "0", "1", "-", "0", "1">>,
     <<"1", "2", "3", "4", "5", "-", "0", "1", "-", "0", "1">>,
     <<"2", "0", "0", "0", "-", "1", "3", "-", "0", "1">>,
     <<"+", "9", "9", "9", "9", "9", "9", "-", "0", "1", "-", "0", "1">>,
     <<>>}

DatesOfBirth ==
    Options({y \o <<"-">> \o md[1] \o <<"-">> \o md[2] :
                 y \in YearTexts, md \in MonthDayTexts} \cup OtherDateTexts)

SexTexts ==
    {<<"m">>,
     <<"M", "a", "L", "e">>,
     <<"f">>,
     <<"f", "e", "M", "a", "L", "e">>,
     <<"t">>,
     <<"t", "r", "A", "n", "S">>,
     <<"t", "e", "s", "t">>,
     <<"T", "e", "S", "t">>}

Sexes == Options(SexTexts)

\* ------------------------------------------------------------------------
\* encode, one statement at a time
\* ------------------------------------------------------------------------

VARIABLES family_name, given_name, date_of_birth, sex,
          encoded_family_name, encoded_given_name,
          encoded_date_of_birth, encoded_sex,
          result, pc

args == <<family_name, given_name, date_of_birth, sex>>

locals == <<encoded_family_name, encoded_given_name,
            encoded_date_of_birth, encoded_sex>>

vars == <<args, locals, result, pc>>

\* No result yet: encode has not returned.
Pending == [kind |-> "Pending", val |-> <<>>]

\* Mutant: the sex is encoded before the date of birth.
next_statement_sex_first(statement) ==
    CASE statement = "encode_family_name" -> "encode_given_name"
      [] statement = "encode_given_name" -> "encode_sex"
      [] statement = "encode_sex" -> "encode_date_of_birth"
      [] statement = "encode_date_of_birth" -> "push_str"

\* The statements of encode, in the order of the source.
next_statement(statement) ==
    CASE statement = "encode_family_name" -> "encode_given_name"
      [] statement = "encode_given_name" -> "encode_date_of_birth"
      [] statement = "encode_date_of_birth" -> "encode_sex"
      [] statement = "encode_sex" -> "push_str"

Init ==
    /\ family_name = None /\ given_name = None
    /\ date_of_birth = None /\ sex = None
    /\ encoded_family_name = <<>> /\ encoded_given_name = <<>>
    /\ encoded_date_of_birth = <<>> /\ encoded_sex = <<>>
    /\ result = Pending
    /\ pc = "idle"

\* A caller calls encode(f, g, d, s).
Call ==
    /\ pc = "idle"
    /\ \E f \in FamilyNames, g \in GivenNames, d \in DatesOfBirth, s \in Sexes :
          /\ family_name' = f /\ given_name' = g
          /\ date_of_birth' = d /\ sex' = s
    /\ encoded_family_name' = <<>> /\ encoded_given_name' = <<>>
    /\ encoded_date_of_birth' = <<>> /\ encoded_sex' = <<>>
    /\ result' = Pending
    /\ pc' = "encode_family_name"

\* Mutant: encode_name is called without the is_none test, and unwrap
\* panics on an absent family name.
EncodeFamilyName_unchecked ==
    /\ pc = "encode_family_name"
    /\ IF is_none(family_name)
       THEN /\ result' = [kind |-> "Panic", val |-> <<>>]
            /\ pc' = "returned"
            /\ UNCHANGED encoded_family_name
       ELSE /\ encoded_family_name' = encode_name(family_name, 5, <<1, 0, 1>>)
            /\ pc' = next_statement(pc)
            /\ UNCHANGED result
    /\ UNCHANGED <<args, encoded_given_name, encoded_date_of_birth, encoded_sex>>

EncodeFamilyName ==
    /\ pc = "encode_family_name"
    /\ encoded_family_name' = encode_family_name(family_name)
    /\ pc' = next_statement(pc)
    /\ UNCHANGED <<args, encoded_given_name, encoded_date_of_birth,
                   encoded_sex, result>>

EncodeGivenName ==
    /\ pc = "encode_given_name"
    /\ encoded_given_name' = encode_given_name(given_name)
    /\ pc' = next_statement(pc)
    /\ UNCHANGED <<args, encoded_family_name, encoded_date_of_birth,
                   encoded_sex, result>>

\* try!(encode_date_of_birth(date_of_birth)): an Err is returned at once.
EncodeDateOfBirth ==
    /\ pc = "encode_date_of_birth"
    /\ LET r == encode_date_of_birth(date_of_birth)
       IN  IF is_err(r)
           THEN /\ result' = r
                /\ pc' = "returned"
                /\ UNCHANGED encoded_date_of_birth
           ELSE /\ encoded_date_of_birth' = r.val
                /\ pc' = next_statement(pc)
                /\ UNCHANGED result
    /\ UNCHANGED <<args, encoded_family_name, encoded_given_name, encoded_sex>>

\* try!(encode_sex(sex)): an Err is returned at once.
EncodeSex ==
    /\ pc = "encode_sex"
    /\ LET r == encode_sex(sex)
       IN  IF is_err(r)
           THEN /\ result' = r
                /\ pc' = "returned"
                /\ UNCHANGED encoded_sex
           ELSE /\ encoded_sex' = r.val
                /\ pc' = next_statement(pc)
                /\ UNCHANGED result
    /\ UNCHANGED <<args, encoded_family_name, encoded_given_name,
                   encoded_date_of_birth>>

\* The four push_str into buf, and Ok(buf).
PushStr ==
    /\ pc = "push_str"
    /\ result' = Ok(encoded_family_name \o encoded_given_name
                        \o encoded_date_of_birth \o encoded_sex)
    /\ pc' = "returned"
    /\ UNCHANGED <<args, locals>>

\* The caller is done with the Result; encode can be called again.
Drop ==
    /\ pc = "returned"
    /\ family_name' = None /\ given_name' = None
    /\ date_of_birth' = None /\ sex' = None
    /\ encoded_family_name' = <<>> /\ encoded_given_name' = <<>>
    /\ encoded_date_of_birth' = <<>> /\ encoded_sex' = <<>>
    /\ result' = Pending
    /\ pc' = "idle"

Next ==
    \/ Call
    \/ EncodeFamilyName
    \/ EncodeGivenName
    \/ EncodeDateOfBirth
    \/ EncodeSex
    \/ PushStr
    \/ Drop

Spec == Init /\ [][Next]_vars

\* ------------------------------------------------------------------------
\* Properties
\* ------------------------------------------------------------------------

Returned == pc = "returned"

ReturnedOk == Returned /\ result.kind = "Ok"

key == result.val

\* encode accepts the date of birth: it is present and parses.
DateAccepted ==
    date_of_birth /= None /\ parse_from_str(unwrap(date_of_birth)).ok

\* The text is a four-digit year, a two-digit month and a two-digit day
\* separated by hyphens.
IsYYYYMMDD(t) ==
    /\ Len(t) = 10
    /\ \A i \in {1, 2, 3, 4, 6, 7, 9, 10} : IsDigit(t[i])
    /\ t[5] = "-" /\ t[8] = "-"

\* The text is YYYY-MM-DD and a date of the calendar.
IsCalendarDate(t) ==
    /\ IsYYYYMMDD(t)
    /\ LET year  == digits_value(SubSeq(t, 1, 4))
           month == digits_value(SubSeq(t, 6, 7))
           day   == digits_value(SubSeq(t, 9, 10))
       IN  /\ month \in 1..12
           /\ day \in 1..(IF month = 2
                          THEN (IF year % 4 = 0 /\ (year % 100 /= 0 \/ year % 400 = 0)
                                THEN 29 ELSE 28)
                          ELSE IF month \in {4, 6, 9, 11} THEN 30 ELSE 31)

\* C1: every Ok result of encode is exactly 14 characters long.
C1_KeyLength == ReturnedOk => Len(key) = 14

\* C2: a present date of birth is accepted only when it is a four-digit
\* year, a two-digit month and a two-digit day separated by hyphens that
\* denote a calendar date; every other present text gives InvalidDateOfBirth.
C2_StrictDate ==
    (Returned /\ date_of_birth /= None)
        => (result = InvalidDateOfBirth <=> ~IsCalendarDate(unwrap(date_of_birth)))

\* Texts equal up to the case of their ASCII letters.
SameLetter(c, lower) ==
    c = lower \/ (IsLowerLetter(lower) /\ c = UpperLetters[IndexOf(LowerLetters, lower)])

EqualsIgnoringCase(t, word) ==
    Len(t) = Len(word) /\ \A i \in 1..Len(word) : SameLetter(t[i], word[i])

IsAnyOf(t, words) == \E w \in words : EqualsIgnoringCase(t, w)

MaleWords == {<<"m">>, <<"m", "a", "l", "e">>}

FemaleWords == {<<"f">>, <<"f", "e", "m", "a", "l", "e">>}

TransWords == {<<"t">>, <<"t", "r", "a", "n", "s">>}

SexRecognized ==
    sex = None \/ IsAnyOf(unwrap(sex), MaleWords \cup FemaleWords \cup TransWords)

\* The character the sex stands for in the key.
SexCharacter ==
    IF sex = None THEN "3"
    ELSE IF IsAnyOf(unwrap(sex), MaleWords) THEN "1"
    ELSE IF IsAnyOf(unwrap(sex), FemaleWords) THEN "2"
    ELSE "3"

\* C3: for an accepted date of birth YYYY-MM-DD the key is 14 characters,
\* its characters 6 to 13 are the day, the month and the year of that text
\* (DDMMYYYY) and the sex character is the character after them, the last.
C3_DateCode ==
    (ReturnedOk /\ IsYYYYMMDD(unwrap(date_of_birth)))
        => LET t == unwrap(date_of_birth)
           IN  /\ Len(key) = 14
               /\ SubSeq(key, 6, 13) = SubSeq(t, 9, 10) \o SubSeq(t, 6, 7) \o SubSeq(t, 1, 4)
               /\ key[14] = SexCharacter

C3_Witness ==
    /\ ReturnedOk
    /\ unwrap(date_of_birth) = <<"2", "0", "0", "0", "-", "1", "2", "-", "1", "9">>
    /\ sex = Some(<<"f">>)
    /\ SubSeq(key, 6, 14) = <<"1", "9", "1", "2", "2", "0", "0", "0", "2">>

\* C4: the date error comes before the sex error: an absent date of birth
\* gives UnknownDateOfBirth and an unparseable one InvalidDateOfBirth whatever
\* the names and the sex are, and UnsupportedSex is returned only when the
\* date is accepted.
C4_DateErrorFirst ==
    Returned =>
        /\ date_of_birth = None => result = UnknownDateOfBirth
        /\ (date_of_birth /= None /\ ~DateAccepted) => result = InvalidDateOfBirth
        /\ result.kind = "UnsupportedSex" => DateAccepted

C4_Witness ==
    /\ Returned
    /\ date_of_birth = Some(<<"2", "0", "0", "0", "1", "2", "1", "9">>)
    /\ sex = Some(<<"t", "e", "s", "t">>)
    /\ family_name /= None
    /\ result = InvalidDateOfBirth

\* C5: with an accepted date, m or male in any case gives the last character
\* 1, f or female 2, t or trans 3, an absent sex 3, and any other text
\* gives UnsupportedSex with the caller's text as it was given.
C5_SexCode ==
    (Returned /\ DateAccepted)
        => IF SexRecognized
           THEN result.kind = "Ok" /\ key[Len(key)] = SexCharacter
           ELSE result = UnsupportedSex(unwrap(sex))

C5_Witness ==
    /\ Returned
    /\ sex = Some(<<"T", "e", "S", "t">>)
    /\ result = UnsupportedSex(<<"T", "e", "S", "t">>)

\* The letter of a cleaned name at a position counted from 1, or the
\* placeholder where the name has no such letter.
LetterAt(clean, i) == IF i <= Len(clean) THEN clean[i] ELSE "2"

CleanedName(name) == sanitize_name(to_uppercase(unwrap(name)))

\* C6: the first 3 characters of the key are 999 for an absent family name,
\* and else the 2nd, 3rd and 5th cleaned letter, with 2 for a missing letter.
C6_FamilyCode ==
    ReturnedOk =>
        SubSeq(key, 1, 3) =
            IF family_name = None THEN <<"9", "9", "9">>
            ELSE LET clean == CleanedName(family_name)
                 IN  <<LetterAt(clean, 2), LetterAt(clean, 3), LetterAt(clean, 5)>>

C6_Witness ==
    /\ ReturnedOk
    /\ family_name = Some(<<"S", "m", "i", "t", "h">>)
    /\ SubSeq(key, 1, 3) = <<"M", "I", "H">>

RECURSIVE LatinLetters(_)
LatinLetters(t) ==
    IF t = <<>> THEN <<>>
    ELSE LET c == Head(t)
         IN  (IF IsUpperLetter(c) THEN <<c>>
              ELSE IF IsLowerLetter(c) THEN <<UpperLetters[IndexOf(LowerLetters, c)]>>
              ELSE <<>>) \o LatinLetters(Tail(t))

\* The same, with the letters of a character whose upper-case form is made
\* of the letters A to Z (the sharp s, SS in upper case).
RECURSIVE LatinLettersOfUpperCase(_)
LatinLettersOfUpperCase(t) ==
    IF t = <<>> THEN <<>>
    ELSE LET c == Head(t)
         IN  (IF IsUpperLetter(c) THEN <<c>>
              ELSE IF IsLowerLetter(c) THEN <<UpperLetters[IndexOf(LowerLetters, c)]>>
              ELSE IF c = SHARP_S THEN <<"S", "S">>
              ELSE <<>>) \o LatinLettersOfUpperCase(Tail(t))

FamilyCodeOf(clean) == <<LetterAt(clean, 2), LetterAt(clean, 3), LetterAt(clean, 5)>>

GivenCodeOf(clean) == <<LetterAt(clean, 2), LetterAt(clean, 3)>>

\* C8 as claimed: the names are coded from their Latin letters A to Z alone,
\* every other character (accented and other letters too) contributing none.
C8_OnlyLatinLetters ==
    ReturnedOk =>
        /\ family_name /= None
              => SubSeq(key, 1, 3) = FamilyCodeOf(LatinLetters(unwrap(family_name)))
        /\ given_name /= None
              => SubSeq(key, 4, 5) = GivenCodeOf(LatinLetters(unwrap(given_name)))

\* C8 as amended: the names are coded from the letters A to Z of their
\* upper-case form, in order: a character whose upper-case form holds no
\* letter A to Z contributes none, the sharp s contributes SS.
C8_LettersOfUpperCase ==
    ReturnedOk =>
        /\ family_name /= None
              => SubSeq(key, 1, 3)
                     = FamilyCodeOf(LatinLettersOfUpperCase(unwrap(family_name)))
        /\ given_name /= None
              => SubSeq(key, 4, 5)
                     = GivenCodeOf(LatinLettersOfUpperCase(unwrap(given_name)))

C8_Witness ==
    /\ ReturnedOk
    /\ family_name = Some(<<"O", "'", "B", "e", "r">>)
    /\ given_name = Some(<<SHARP_S>>)
    /\ SubSeq(key, 1, 5) = <<"B", "E", "2", "S", "2">>

\* C9: the names never cause an error: encode returns Ok exactly when the
\* date is accepted and the sex is absent or recognized, and else the error
\* that the date and the sex alone decide.
C9_NamesNeverFail ==
    Returned =>
        /\ result.kind = "Ok" <=> (DateAccepted /\ SexRecognized)
        /\ result.kind /= "Ok"
              => result = IF date_of_birth = None THEN UnknownDateOfBirth
                          ELSE IF ~DateAccepted THEN InvalidDateOfBirth
                          ELSE UnsupportedSex(unwrap(sex))

C9_Witness ==
    /\ ReturnedOk
    /\ family_name = None
    /\ given_name = Some(<<>>)
    /\ SubSeq(key, 1, 5) = <<"9", "9", "9", "2", "2">>

\* Two cleaned names agree, but for the positions in `free` and the letters
\* after the first n: each other position holds the same letter in both, or
\* no letter in both.
AgreeExcept(clean1, clean2, n, free) ==
    \A i \in (1..n) \ free :
        /\ (i <= Len(clean1)) = (i <= Len(clean2))
        /\ i <= Len(clean1) => clean1[i] = clean2[i]

\* The cleaned letters of the names given to encode.
CleanedNames ==
    [name \in (FamilyNames \cup GivenNames) \ {None} |-> CleanedName(name)]

\* Another call differs from this one in nothing that is looked up: the same
\* date and sex, and names that are absent in both or differ in the 1st, the
\* 4th or the later than 5th cleaned letter (family name), the 1st or the
\* later than 3rd (given name).
DiffersInNothingLookedUp(f, g) ==
    /\ (f = None) = (family_name = None)
    /\ (g = None) = (given_name = None)
    /\ f /= None => AgreeExcept(CleanedNames[f], CleanedNames[family_name], 5, {1, 4})
    /\ g /= None => AgreeExcept(CleanedNames[g], CleanedNames[given_name], 3, {1})

\* Once a placeholder, placeholders up to the end of the code.
PlaceholdersLast(code) ==
    \A i \in 1..Len(code) : \A j \in i..Len(code) : code[i] = "2" => code[j] = "2"

\* C11: the result of encode is the result of every call that differs from
\* it only in cleaned letters that are not looked up (the 1st, the 4th and
\* those after the 5th of the family name, the 1st and those after the 3rd
\* of the given name), and in each code of a present name every slot after a
\* placeholder 2 holds 2.
C11_OnlyLookedUpLetters ==
    Returned =>
        /\ \A f \in FamilyNames, g \in GivenNames :
              DiffersInNothingLookedUp(f, g)
                  => encode(f, g, date_of_birth, sex) = result
        /\ (result.kind = "Ok" /\ family_name /= None)
              => PlaceholdersLast(SubSeq(key, 1, 3))
        /\ (result.kind = "Ok" /\ given_name /= None)
              => PlaceholdersLast(SubSeq(key, 4, 5))

C11_Witness ==
    /\ ReturnedOk
    /\ family_name = Some(<<"O", " ", "B", "a", "r", "e">>)
    /\ given_name = Some(<<"Y", "o">>)
    /\ SubSeq(key, 1, 5) = <<"B", "A", "E", "O", "2">>
    /\ DiffersInNothingLookedUp(Some(<<"O", " ", "B", "a", "l", "e">>),
                                Some(<<"J", "o">>))
    /\ DiffersInNothingLookedUp(Some(<<"O", " ", "B", "a", "r", "e">>),
                                Some(<<"J", "o", "h">>)) = FALSE

====
